---------------------------- MODULE Spec2Model ----------------------------
(***************************************************************************)
(* Conversation memory of the multi-LLM chat backend:                      *)
(* src/conversation_memory.py (TokenCounter, ConversationSummarizer,       *)
(* ConversationMemoryManager, the module-level session registry).          *)
(*                                                                         *)
(* A text is represented by its length in characters, the one attribute    *)
(* of a text that the fallback token count, the truncations of the         *)
(* summary builder and string concatenation read.  Python list indices     *)
(* are kept 0-based where the code computes with them; a TLA+ sequence     *)
(* position is the Python index plus one.                                  *)
(***************************************************************************)
EXTENDS Integers, Sequences, FiniteSets, TLC

VARIABLES
    memory_managers,  \* _memory_managers: session id -> manager
    MODEL_CONFIGS,    \* ConversationMemoryManager.MODEL_CONFIGS (class attribute, shared)
    now,              \* the clock read by datetime.now(timezone.utc)
    last,             \* the last call: its name, arguments, outcome and return value
    chat,             \* the requests in flight in server.chat, one per thread
    limiter           \* rate_limit_storage of server.py, and every timestamp admitted

vars == <<memory_managers, MODEL_CONFIGS, now, last, chat, limiter>>

----------------------------------------------------------------------------
(* Bounds of the model.                                                    *)

\* The clock stops the model: no message is created at or after MaxClock.
MaxClock == 4

\* Session ids are Python strings, kept as sequences of code points so that
\* sorted() can be computed.
SessionIds == {<<97>>, <<97, 98>>, <<98>>}

\* The session id the buffer specification works on.
BufferSession == <<97>>

\* (role, content length, is_pinned) triples given to add_message.
AddInputs == { <<"user", 60800, FALSE>>, <<"assistant", 60800, FALSE>>,
               <<"user", 130000, FALSE>>, <<"user", 130000, TRUE>>,
               <<"system", 0, FALSE>> }

\* The one triple the registry specification adds.
RegistryInput == <<"user", 60800, FALSE>>

\* Model ids given to set_model: one of the table, one unknown.
ModelIds == {"deepseek-ai/deepseek-r1", "acme/unlisted"}

\* max_sessions values given to cleanup_old_sessions.
MaxSessionsArgs == {0, 1, 2, 3}

\* The longest text given to the Length Estimator alone.
MaxTextLen == 8

\* A letter, a whitespace character, a punctuation character.
Alphabet == {"a", " ", "."}

\* The threads of the server, each serving one chat request at a time.
Threads == {1, 2}

\* No message is created by a chat request at or after MaxChatClock.
MaxChatClock == 6

\* The session id and the model of the chat requests.
ChatSession == <<99, 104, 97, 116, 49>>                     \* "chat1"
ChatModel == "qwen/qwen2.5-coder-32b-instruct"

\* Content lengths of a chat request: a user message of 10000 quote
\* characters after html.escape, and the reply of the model.
ChatContent == [user |-> 60000, assistant |-> 4000]

\* The client addresses given to check_rate_limit.
ClientAddresses == {"10.0.0.1", "10.0.0.2"}

\* The clock of the rate limiter stops at MaxRateClock seconds.
MaxRateClock == 60

\* The seconds that pass between two calls of check_rate_limit, when any.
RateSteps == {30}

\* Texts given to count_tokens, character by character.
Texts == UNION { [1..n -> Alphabet] : n \in 0..MaxTextLen }

----------------------------------------------------------------------------
(* Program constants.                                                      *)

NoModel == "None"                 \* current_model: Optional[str] = None
DefaultMaxTokens == 32000
DefaultReserveTokens == 1000
ThresholdNum == 7                 \* summary_threshold = 0.7 = ThresholdNum / ThresholdDen
ThresholdDen == 10
FallbackCharsPerToken == 4
SystemPromptLen == 2295           \* len(system_content)
SummaryPrefixLen == 23            \* len("[CONVERSATION SUMMARY] ")
UserTopicChars == 100
AssistantChars == 150
EllipsisLen == 3                  \* len("...")
MaxTopics == 3
MaxRequests == 10                 \* check_rate_limit(max_requests=10)
WindowSeconds == 60               \* check_rate_limit(window_seconds=60)
ChatMaxSessions == 500            \* cleanup_old_sessions(max_sessions=500)

ModelConfig(name, max_tokens) ==
    [name |-> name, max_tokens |-> max_tokens,
     reserve_tokens |-> DefaultReserveTokens,
     summary_threshold |-> <<ThresholdNum, ThresholdDen>>]

InitialModelConfigs ==
    ( "meta/llama-4-maverick-17b-128e-instruct" :> ModelConfig("Llama 4 Maverick", 1000000)
   @@ "deepseek-ai/deepseek-r1"                 :> ModelConfig("DeepSeek R1", 128000)
   @@ "qwen/qwen2.5-coder-32b-instruct"         :> ModelConfig("Qwen 2.5 Coder", 32000)
   @@ "qwen/qwen3-coder-480b-a35b-instruct"     :> ModelConfig("Qwen3 Coder 480B", 256000)
   @@ "deepseek-ai/deepseek-v3.1"               :> ModelConfig("DeepSeek V3.1", 128000)
   @@ "openai/gpt-oss-120b"                     :> ModelConfig("GPT OSS", 128000)
   @@ "qwen/qwen3-235b-a22b:free"               :> ModelConfig("Qwen3 235B", 131000)
   @@ "google/gemma-3-27b-it:free"              :> ModelConfig("Gemma 3", 96000)
   @@ "x-ai/grok-4-fast:free"                   :> ModelConfig("Grok 4", 2000000) )

----------------------------------------------------------------------------
(* TokenCounter.                                                           *)

Max(a, b) == IF a >= b THEN a ELSE b
Min(a, b) == IF a <= b THEN a ELSE b

\* len(self.tokenizer.encode(text)): tiktoken is a third-party library; its
\* cl100k_base count is represented by one token per started group of four
\* characters.
encode_len(text) == (text + FallbackCharsPerToken - 1) \div FallbackCharsPerToken

\* a fallback that forgets the floor of one token
count_tokens_without_floor(text, tokenizer) ==
    IF text = 0 THEN 0
    ELSE IF tokenizer THEN encode_len(text)
    ELSE text \div FallbackCharsPerToken

\* tokenizer: TRUE when tiktoken.get_encoding succeeded in __init__, FALSE
\* when it raised and self.tokenizer is None.
count_tokens(text, tokenizer) ==
    IF text = 0 THEN 0
    ELSE IF tokenizer THEN encode_len(text)
    ELSE Max(1, text \div FallbackCharsPerToken)

----------------------------------------------------------------------------
(* ConversationSummarizer.create_summary, on lengths.                      *)

RECURSIVE Digits(_)
Digits(n) == IF n < 10 THEN 1 ELSE 1 + Digits(n \div 10)

RECURSIVE SumLens(_)
SumLens(s) == IF s = <<>> THEN 0 ELSE Head(s) + SumLens(Tail(s))

\* content[:100] + "..." if len(content) > 100 else content
user_topic(content) ==
    IF content > UserTopicChars THEN UserTopicChars + EllipsisLen ELSE content

\* "; ".join(topics)
JoinLen(topics, sep) ==
    IF topics = <<>> THEN 0 ELSE SumLens(topics) + sep * (Len(topics) - 1)

create_summary(messages) ==
    IF messages = <<>> THEN 0
    ELSE
    LET user_messages == SelectSeq(messages, LAMBDA m : m.role = "user")
        assistant_messages == SelectSeq(messages, LAMBDA m : m.role = "assistant")
        user_topics == [i \in 1..Len(user_messages) |-> user_topic(user_messages[i].content)]
        user_part ==
            IF user_messages = <<>> THEN <<>>
            ELSE IF Len(user_topics) = 1
                 THEN << 12 + user_topics[1] >>                \* "User asked: "
                 ELSE << 16                                        \* "User discussed: "
                         + JoinLen(SubSeq(user_topics, 1, Min(MaxTopics, Len(user_topics))), 2)
                         + (IF Len(user_topics) > MaxTopics
                            THEN 5 + Digits(Len(user_topics) - MaxTopics) + 13  \* " and k other topics"
                            ELSE 0) >>
        assistant_part ==
            IF assistant_messages = <<>> THEN <<>>
            ELSE IF Len(assistant_messages) = 1
                 THEN << 21 + Min(assistant_messages[1].content, AssistantChars)   \* "Assistant responded: "
                            + (IF assistant_messages[1].content > AssistantChars
                               THEN EllipsisLen ELSE 0) >>
                 ELSE << 19 + Digits(Len(assistant_messages)) + 19 >>  \* "Assistant provided n detailed responses"
    IN  JoinLen(user_part \o assistant_part, 3)                         \* " | "

----------------------------------------------------------------------------
(* ConversationMemoryManager.                                              *)

ConversationMessage(role, content, timestamp, token_count, is_pinned, is_summary) ==
    [role |-> role, content |-> content, timestamp |-> timestamp,
     token_count |-> token_count, is_pinned |-> is_pinned, is_summary |-> is_summary]

\* _add_system_prompt: the message it appends
system_prompt(t, tokenizer) ==
    ConversationMessage("system", SystemPromptLen, t,
                        count_tokens(SystemPromptLen, tokenizer), TRUE, FALSE)

\* __init__
NewManager(session_id, t, tokenizer) ==
    [session_id |-> session_id,
     messages |-> << system_prompt(t, tokenizer) >>,
     current_model |-> NoModel,
     tokenizer |-> tokenizer]

get_model_config(current_model, configs) ==
    IF current_model = NoModel THEN ModelConfig("Default", DefaultMaxTokens)
    ELSE IF current_model \in DOMAIN configs THEN configs[current_model]
    ELSE ModelConfig("Default", DefaultMaxTokens)

RECURSIVE calculate_total_tokens(_)
calculate_total_tokens(messages) ==
    IF messages = <<>> THEN 0
    ELSE Head(messages).token_count + calculate_total_tokens(Tail(messages))

\* a removal that fills the hole with the last element
PopSwapRemove(messages, i) ==
    IF i + 1 = Len(messages) THEN SubSeq(messages, 1, i)
    ELSE SubSeq(messages, 1, i) \o << messages[Len(messages)] >>
         \o SubSeq(messages, i + 2, Len(messages) - 1)

\* list.pop(i), i a Python index within range
Pop(messages, i) == SubSeq(messages, 1, i) \o SubSeq(messages, i + 2, Len(messages))

Removable(msg) == ~msg.is_pinned /\ msg.role # "system"

RECURSIVE IndicesWhere(_, _)
\* [i for i, msg in enumerate(messages) if Removable(msg)], 0-based, ascending
IndicesWhere(messages, k) ==
    IF k > Len(messages) THEN <<>>
    ELSE (IF Removable(messages[k]) THEN << k - 1 >> ELSE <<>>)
         \o IndicesWhere(messages, k + 1)

RECURSIVE simple_truncate_loop(_, _, _, _)
\* the for loop of _simple_truncate: it walks the indices computed before the
\* first pop (sorted() copied them), popping from the list as it is now.
simple_truncate_loop(messages, indices, current_tokens, max_tokens) ==
    IF indices = <<>> \/ current_tokens <= max_tokens
    THEN [messages |-> messages, raised |-> "none"]
    ELSE LET i == Head(indices) IN
         IF i >= Len(messages)
         THEN [messages |-> messages, raised |-> "IndexError"]
         ELSE simple_truncate_loop(Pop(messages, i), Tail(indices),
                                   current_tokens - messages[i + 1].token_count,
                                   max_tokens)

simple_truncate(messages, max_tokens) ==
    LET r == simple_truncate_loop(messages, IndicesWhere(messages, 1),
                                  calculate_total_tokens(messages), max_tokens)
    IN  [messages |-> r.messages, raised |-> r.raised, pass |-> "simple",
         stamps |-> 0]

RECURSIVE split_point_appending(_, _, _, _, _, _)
\* the split with messages_to_keep.append(msg) in place of insert(0, msg)
split_point_appending(unpinned, k, current_unpinned_tokens, target, keep, summarize) ==
    IF k = 0 THEN [keep |-> keep, summarize |-> summarize]
    ELSE LET msg == unpinned[k] IN
         IF current_unpinned_tokens + msg.token_count <= target
         THEN split_point_appending(unpinned, k - 1,
                                    current_unpinned_tokens + msg.token_count,
                                    target, keep \o <<msg>>, summarize)
         ELSE split_point_appending(unpinned, k - 1, current_unpinned_tokens,
                                    target, keep, <<msg>> \o summarize)

RECURSIVE split_point(_, _, _, _, _, _)
\* the loop over reversed(unpinned_messages); k is the position looked at
split_point(unpinned, k, current_unpinned_tokens, target, keep, summarize) ==
    IF k = 0 THEN [keep |-> keep, summarize |-> summarize]
    ELSE LET msg == unpinned[k] IN
         IF current_unpinned_tokens + msg.token_count <= target
         THEN split_point(unpinned, k - 1, current_unpinned_tokens + msg.token_count,
                          target, <<msg>> \o keep, summarize)
         ELSE split_point(unpinned, k - 1, current_unpinned_tokens,
                          target, keep, <<msg>> \o summarize)

summary_message(messages_to_summarize, t, tokenizer) ==
    LET summary_content == create_summary(messages_to_summarize)
    IN  ConversationMessage("system", SummaryPrefixLen + summary_content, t,
                            count_tokens(summary_content, tokenizer), TRUE, TRUE)

\* a pass that puts the summary at the head of the rebuilt list
truncate_with_summary_summary_first(messages, max_tokens, t, tokenizer) ==
    LET pinned_messages == SelectSeq(messages, LAMBDA m : m.is_pinned \/ m.role = "system")
        unpinned_messages == SelectSeq(messages, LAMBDA m : ~m.is_pinned /\ m.role # "system")
    IN  IF Len(unpinned_messages) <= 2 THEN simple_truncate(messages, max_tokens)
        ELSE
        LET target_unpinned_tokens == max_tokens - calculate_total_tokens(pinned_messages)
            s == split_point(unpinned_messages, Len(unpinned_messages), 0,
                             target_unpinned_tokens, <<>>, <<>>)
        IN  IF s.summarize # <<>>
            THEN [messages |-> << summary_message(s.summarize, t, tokenizer) >>
                               \o pinned_messages
                               \o s.keep,
                  raised |-> "none", pass |-> "summary", stamps |-> 1]
            ELSE [messages |-> messages, raised |-> "none", pass |-> "summary_noop",
                  stamps |-> 0]

\* _truncate_with_summary
truncate_with_summary(messages, max_tokens, t, tokenizer) ==
    LET pinned_messages == SelectSeq(messages, LAMBDA m : m.is_pinned \/ m.role = "system")
        unpinned_messages == SelectSeq(messages, LAMBDA m : ~m.is_pinned /\ m.role # "system")
    IN  IF Len(unpinned_messages) <= 2 THEN simple_truncate(messages, max_tokens)
        ELSE
        LET target_unpinned_tokens == max_tokens - calculate_total_tokens(pinned_messages)
            s == split_point(unpinned_messages, Len(unpinned_messages), 0,
                             target_unpinned_tokens, <<>>, <<>>)
        IN  IF s.summarize # <<>>
            THEN [messages |-> pinned_messages
                               \o << summary_message(s.summarize, t, tokenizer) >>
                               \o s.keep,
                  raised |-> "none", pass |-> "summary", stamps |-> 1]
            ELSE [messages |-> messages, raised |-> "none", pass |-> "summary_noop",
                  stamps |-> 0]

\* a threshold that divides by the ratio
summary_threshold_of_divided(max_tokens, ratio) == (max_tokens * ratio[2]) \div ratio[1]

\* int(max_tokens * config.summary_threshold)
summary_threshold_of(max_tokens, ratio) == (max_tokens * ratio[1]) \div ratio[2]

\* a manager that takes the summary threshold for the limit
manage_buffer_size_at_threshold(messages, config, t, tokenizer) ==
    LET max_tokens == summary_threshold_of(config.max_tokens - config.reserve_tokens,
                                           config.summary_threshold)
        current_tokens == calculate_total_tokens(messages)
    IN  IF current_tokens <= max_tokens
        THEN [messages |-> messages, raised |-> "none", pass |-> "none", stamps |-> 0]
        ELSE truncate_with_summary(messages, max_tokens, t, tokenizer)

\* a manager that runs the pass again on what the first pass left
manage_buffer_size_repeated(messages, config, t, tokenizer) ==
    LET max_tokens == config.max_tokens - config.reserve_tokens
        pass(msgs, tt) ==
            IF calculate_total_tokens(msgs) <= max_tokens
            THEN [messages |-> msgs, raised |-> "none", pass |-> "none", stamps |-> 0]
            ELSE IF calculate_total_tokens(msgs)
                       > summary_threshold_of(max_tokens, config.summary_threshold)
                 THEN truncate_with_summary(msgs, max_tokens, tt, tokenizer)
                 ELSE simple_truncate(msgs, max_tokens)
        first == pass(messages, t)
        second == pass(first.messages, t + first.stamps)
    IN  IF first.raised # "none" \/ second.pass = "none" THEN first
        ELSE [second EXCEPT !.stamps = first.stamps + second.stamps]

\* _manage_buffer_size
manage_buffer_size(messages, config, t, tokenizer) ==
    LET max_tokens == config.max_tokens - config.reserve_tokens
        current_tokens == calculate_total_tokens(messages)
    IN  IF current_tokens <= max_tokens
        THEN [messages |-> messages, raised |-> "none", pass |-> "none", stamps |-> 0]
        ELSE IF current_tokens > summary_threshold_of(max_tokens, config.summary_threshold)
             THEN truncate_with_summary(messages, max_tokens, t, tokenizer)
             ELSE simple_truncate(messages, max_tokens)

\* add_message: the message is stamped t, a summary built by the pass t + 1
add_message(mgr, configs, role, content, is_pinned, t) ==
    LET message == ConversationMessage(role, content, t,
                                       count_tokens(content, mgr.tokenizer),
                                       is_pinned, FALSE)
        r == manage_buffer_size(Append(mgr.messages, message),
                                get_model_config(mgr.current_model, configs),
                                t + 1, mgr.tokenizer)
    IN  [messages |-> r.messages, raised |-> r.raised, pass |-> r.pass,
         stamps |-> 1 + r.stamps, message |-> message]


\* a clear that keeps what eviction keeps: pinned or system
clear_conversation_keeping_fixed(messages, keep_system_prompt, t, tokenizer) ==
    IF keep_system_prompt
    THEN SelectSeq(messages, LAMBDA m : m.is_pinned \/ m.role = "system")
    ELSE << system_prompt(t, tokenizer) >>

\* clear_conversation
clear_conversation(messages, keep_system_prompt, t, tokenizer) ==
    IF keep_system_prompt
    THEN SelectSeq(messages, LAMBDA m : m.is_pinned /\ m.role = "system")
    ELSE << system_prompt(t, tokenizer) >>

\* get_conversation_buffer: the list of API messages it returns
api_message(msg) ==
    IF msg.is_summary
    THEN [role |-> msg.role, content |-> msg.content, metadata |-> [is_summary |-> TRUE]]
    ELSE [role |-> msg.role, content |-> msg.content]

get_conversation_buffer(messages) ==
    [i \in 1..Len(messages) |-> api_message(messages[i])]

----------------------------------------------------------------------------
(* export_conversation / import_conversation.  A dict is a function whose  *)
(* domain is the set of keys present.  A timestamp of the exchanged data   *)
(* is a datetime object [kind |-> "datetime", t], a string in ISO form     *)
(* [kind |-> "iso", t] or any other string [kind |-> "text", t].           *)

DefaultSessionId == <<100, 101, 102, 97, 117, 108, 116>>     \* "default"

Get(d, key, default) == IF key \in DOMAIN d THEN d[key] ELSE default

MessageFields == {"role", "content", "timestamp", "token_count", "is_pinned", "is_summary"}
RequiredFields == {"role", "content", "timestamp"}

\* a dict of the message that leaves out its token count
asdict_without_token_count(msg) ==
    [role |-> msg.role, content |-> msg.content,
     timestamp |-> [kind |-> "datetime", t |-> msg.timestamp],
     is_pinned |-> msg.is_pinned, is_summary |-> msg.is_summary]

\* asdict(msg)
asdict(msg) ==
    [role |-> msg.role, content |-> msg.content,
     timestamp |-> [kind |-> "datetime", t |-> msg.timestamp],
     token_count |-> msg.token_count, is_pinned |-> msg.is_pinned,
     is_summary |-> msg.is_summary]

\* round(x, 2) of x = 100 * num / den, in hundredths; a tie goes to the even
\* hundredth
percent_hundredths(num, den) ==
    LET whole == (num * 100) \div den
        rest  == ((num * 100) % den) * 100
        q     == rest \div den
        r     == rest % den
        up    == 2 * r > den \/ (2 * r = den /\ q % 2 = 1)
    IN  whole * 100 + q + (IF up THEN 1 ELSE 0)

\* get_conversation_stats; utilization_percent is in hundredths of a percent
get_conversation_stats(mgr, configs) ==
    LET config == get_model_config(mgr.current_model, configs)
        total_tokens == calculate_total_tokens(mgr.messages)
    IN  [session_id |-> mgr.session_id,
         current_model |-> mgr.current_model,
         total_messages |-> Len(mgr.messages),
         total_tokens |-> total_tokens,
         max_tokens |-> config.max_tokens,
         utilization_percent |-> percent_hundredths(total_tokens, config.max_tokens),
         pinned_messages |-> Len(SelectSeq(mgr.messages, LAMBDA m : m.is_pinned)),
         summary_messages |-> Len(SelectSeq(mgr.messages, LAMBDA m : m.is_summary))]

\* export_conversation
export_conversation(mgr, configs) ==
    [session_id |-> mgr.session_id,
     current_model |-> mgr.current_model,
     messages |-> [i \in 1..Len(mgr.messages) |-> asdict(mgr.messages[i])],
     stats |-> get_conversation_stats(mgr, configs)]

\* isinstance(timestamp, str) and datetime.fromisoformat raising ValueError
BadTimestamp(msg_data) ==
    "timestamp" \in DOMAIN msg_data /\ msg_data["timestamp"].kind = "text"

\* ConversationMessage(**msg_data) raising TypeError: a required field is
\* missing or a key is no field of the dataclass
BadFields(msg_data) ==
    ~(RequiredFields \subseteq DOMAIN msg_data) \/ ~(DOMAIN msg_data \subseteq MessageFields)

\* the message one well-formed entry becomes
message_of(msg_data) ==
    ConversationMessage(msg_data["role"], msg_data["content"], msg_data["timestamp"].t,
                        Get(msg_data, "token_count", 0),
                        Get(msg_data, "is_pinned", FALSE),
                        Get(msg_data, "is_summary", FALSE))

RECURSIVE import_loop(_, _)
\* the for loop of import_conversation, appending to self.messages
import_loop(entries, messages) ==
    IF entries = <<>> THEN [messages |-> messages, raised |-> "none"]
    ELSE LET msg_data == Head(entries) IN
         IF BadTimestamp(msg_data) THEN [messages |-> messages, raised |-> "ValueError"]
         ELSE IF BadFields(msg_data) THEN [messages |-> messages, raised |-> "TypeError"]
         ELSE import_loop(Tail(entries), Append(messages, message_of(msg_data)))

\* import_conversation: the three assignments come before the loop
import_conversation(mgr, data) ==
    LET r == import_loop(Get(data, "messages", <<>>), <<>>)
    IN  [mgr |-> [mgr EXCEPT !.session_id = Get(data, "session_id", DefaultSessionId),
                             !.current_model = Get(data, "current_model", NoModel),
                             !.messages = r.messages],
         raised |-> r.raised]

----------------------------------------------------------------------------
(* The session registry.                                                   *)

RECURSIVE LexLess(_, _)
\* Python's str < str: by code point, a proper prefix first
LexLess(a, b) ==
    IF b = <<>> THEN FALSE
    ELSE IF a = <<>> THEN TRUE
    ELSE IF Head(a) # Head(b) THEN Head(a) < Head(b)
    ELSE LexLess(Tail(a), Tail(b))

RECURSIVE SortedKeys(_)
\* sorted(keys)
SortedKeys(keys) ==
    IF keys = {} THEN <<>>
    ELSE LET least == CHOOSE k \in keys : \A o \in keys \ {k} : LexLess(k, o)
         IN  <<least>> \o SortedKeys(keys \ {least})

\* the slice taken from the other end of the sorted keys
oldest_sessions_from_end(managers, max_sessions) ==
    LET keys == SortedKeys(DOMAIN managers)
    IN  SubSeq(keys, Max(1, max_sessions + 1), Len(keys))

\* sorted(_memory_managers.keys())[:len(_memory_managers) - max_sessions]
oldest_sessions(managers, max_sessions) ==
    LET keys == SortedKeys(DOMAIN managers)
    IN  SubSeq(keys, 1, Min(Len(keys), Cardinality(DOMAIN managers) - max_sessions))

\* cleanup_old_sessions: the registry it leaves
cleanup_old_sessions(managers, max_sessions) ==
    IF Cardinality(DOMAIN managers) > max_sessions
    THEN LET oldest == oldest_sessions(managers, max_sessions)
             gone == {oldest[i] : i \in 1..Len(oldest)}
         IN  [s \in DOMAIN managers \ gone |-> managers[s]]
    ELSE managers


\* a lookup that constructs a manager on every call
get_memory_manager_always_new(managers, session_id, t, tokenizer) ==
    (session_id :> NewManager(session_id, t, tokenizer)) @@ managers

\* get_memory_manager: the registry it leaves; t and tokenizer are read only
\* when the manager is constructed
get_memory_manager(managers, session_id, t, tokenizer) ==
    IF session_id \notin DOMAIN managers
    THEN (session_id :> NewManager(session_id, t, tokenizer)) @@ managers
    ELSE managers

\* set_model without the membership test
set_model_overwriting(configs, model_name) ==
    (model_name :> ModelConfig("Unknown-" \o model_name, DefaultMaxTokens)) @@ configs

\* set_model: the table it leaves
set_model(configs, model_name) ==
    IF model_name \notin DOMAIN configs
    THEN (model_name :> ModelConfig("Unknown-" \o model_name, DefaultMaxTokens)) @@ configs
    ELSE configs

----------------------------------------------------------------------------
(* Data given to import_conversation: persisted earlier, so its timestamps *)
(* lie before the model's clock starts.                                    *)

GoodEntry ==
    [role |-> "user", content |-> 60800, timestamp |-> [kind |-> "iso", t |-> -2],
     token_count |-> 15200, is_pinned |-> FALSE, is_summary |-> FALSE]

MinimalEntry ==
    [role |-> "assistant", content |-> 60800, timestamp |-> [kind |-> "datetime", t |-> -1]]

MissingFieldEntry ==
    [role |-> "user", timestamp |-> [kind |-> "iso", t |-> -1]]

BadTimestampEntry ==
    [role |-> "user", content |-> 60800, timestamp |-> [kind |-> "text", t |-> 0]]

\* an entry marked as a summary that is a plain user message
UserSummaryEntry ==
    [role |-> "user", content |-> 2400, timestamp |-> [kind |-> "iso", t |-> -1],
     token_count |-> 600, is_summary |-> TRUE]

ImportData ==
    { [session_id |-> <<98>>, current_model |-> "deepseek-ai/deepseek-r1",
       messages |-> <<GoodEntry, MinimalEntry>>],
      [messages |-> <<MinimalEntry>>],
      [session_id |-> <<97>>, current_model |-> "acme/imported",
       messages |-> <<GoodEntry, UserSummaryEntry>>],
      [session_id |-> <<98>>, current_model |-> "deepseek-ai/deepseek-r1",
       messages |-> <<GoodEntry, MissingFieldEntry>>],
      [session_id |-> <<98>>, current_model |-> "deepseek-ai/deepseek-r1",
       messages |-> <<GoodEntry, BadTimestampEntry>>] }

----------------------------------------------------------------------------
(* Actions: one per call of the module's interface.                        *)

\* before: the messages of the manager the call is made on, as the call found
\* them; for cleanup_old_sessions, the session ids the call found
Call(op, sid, arg, before, raised, pass, ret) ==
    [op |-> op, sid |-> sid, arg |-> arg, before |-> before, raised |-> raised,
     pass |-> pass, ret |-> ret]

\* no request in flight. pc: the line of chat() the thread is at; ref: the
\* manager object it holds (0: none); registered: the object the registry
\* holds for ChatSession (0: none); orphans: the objects no longer in the
\* registry; role, appended, pending: the locals of add_message and of
\* _truncate_with_summary
NoChat ==
    [pc |-> [t \in Threads |-> "idle"],
     ref |-> [t \in Threads |-> 0],
     role |-> [t \in Threads |-> "user"],
     appended |-> [t \in Threads |-> <<>>],
     pending |-> [t \in Threads |-> <<>>],
     registered |-> 0,
     orphans |-> << >>,
     next_object |-> 1]

\* rate_limit_storage = defaultdict(deque): no address has called yet
NoCalls ==
    [storage |-> [ip \in ClientAddresses |-> <<>>],
     admitted |-> [ip \in ClientAddresses |-> <<>>]]

Init ==
    /\ limiter = NoCalls
    /\ chat = NoChat
    /\ memory_managers = << >>
    /\ MODEL_CONFIGS = InitialModelConfigs
    /\ now = 0
    /\ last = Call("init", <<>>, <<>>, <<>>, "none", "none", <<>>)

GetMemoryManager(s) ==
    \/ /\ s \notin DOMAIN memory_managers
       /\ now < MaxClock
       /\ \E tokenizer \in BOOLEAN :
             memory_managers' = get_memory_manager(memory_managers, s, now, tokenizer)
       /\ now' = now + 1
       /\ last' = Call("get_memory_manager", s, "created", <<>>, "none", "none", <<>>)
       /\ UNCHANGED <<MODEL_CONFIGS, chat, limiter>>
    \/ /\ s \in DOMAIN memory_managers
       /\ memory_managers' = get_memory_manager(memory_managers, s, now, TRUE)
       /\ last' = Call("get_memory_manager", s, "found", memory_managers[s].messages,
                    "none", "none", <<>>)
       /\ UNCHANGED <<MODEL_CONFIGS, now, chat, limiter>>

SetModel(s, model_name) ==
    /\ s \in DOMAIN memory_managers
    /\ memory_managers' = [memory_managers EXCEPT ![s].current_model = model_name]
    /\ MODEL_CONFIGS' = set_model(MODEL_CONFIGS, model_name)
    /\ last' = Call("set_model", s, model_name, memory_managers[s].messages,
                    "none", "none", <<>>)
    /\ UNCHANGED <<now, chat, limiter>>

AddMessage(s, role, content, is_pinned) ==
    /\ s \in DOMAIN memory_managers
    /\ now < MaxClock
    /\ LET r == add_message(memory_managers[s], MODEL_CONFIGS, role, content, is_pinned, now)
       IN  /\ memory_managers' = [memory_managers EXCEPT ![s].messages = r.messages]
           /\ now' = now + r.stamps
           /\ last' = Call("add_message", s, r.message, memory_managers[s].messages,
                           r.raised, r.pass,
                           IF r.raised = "none" THEN << r.message >> ELSE << >>)
    /\ UNCHANGED <<MODEL_CONFIGS, chat, limiter>>

\* a read that consumes the list it walks
GetConversationBufferDraining(s) ==
    /\ s \in DOMAIN memory_managers
    /\ last' = Call("get_conversation_buffer", s, <<>>, memory_managers[s].messages,
                    "none", "none",
                    get_conversation_buffer(memory_managers[s].messages))
    /\ memory_managers' = [memory_managers EXCEPT ![s].messages = << >>]
    /\ UNCHANGED <<MODEL_CONFIGS, now, chat, limiter>>

GetConversationBuffer(s) ==
    /\ s \in DOMAIN memory_managers
    /\ last' = Call("get_conversation_buffer", s, <<>>, memory_managers[s].messages,
                    "none", "none",
                    get_conversation_buffer(memory_managers[s].messages))
    /\ UNCHANGED <<memory_managers, MODEL_CONFIGS, now, chat, limiter>>

ClearConversation(s, keep_system_prompt) ==
    /\ s \in DOMAIN memory_managers
    /\ keep_system_prompt \/ now < MaxClock
    /\ memory_managers' =
          [memory_managers EXCEPT ![s].messages =
              clear_conversation(@, keep_system_prompt, now, memory_managers[s].tokenizer)]
    /\ now' = IF keep_system_prompt THEN now ELSE now + 1
    /\ last' = Call("clear_conversation", s, keep_system_prompt,
                    memory_managers[s].messages, "none", "none", <<>>)
    /\ UNCHANGED <<MODEL_CONFIGS, chat, limiter>>

ImportConversation(s, data) ==
    /\ s \in DOMAIN memory_managers
    /\ LET r == import_conversation(memory_managers[s], data)
       IN  /\ memory_managers' = [memory_managers EXCEPT ![s] = r.mgr]
           /\ last' = Call("import_conversation", s, data, memory_managers[s].messages,
                           r.raised, "none", <<>>)
    /\ UNCHANGED <<MODEL_CONFIGS, now, chat, limiter>>

GetConversationStats(s) ==
    /\ s \in DOMAIN memory_managers
    /\ last' = Call("get_conversation_stats", s, <<>>, memory_managers[s].messages,
                    "none", "none",
                    << get_conversation_stats(memory_managers[s], MODEL_CONFIGS) >>)
    /\ UNCHANGED <<memory_managers, MODEL_CONFIGS, now, chat, limiter>>

ExportConversation(s) ==
    /\ s \in DOMAIN memory_managers
    /\ last' = Call("export_conversation", s, <<>>, memory_managers[s].messages,
                    "none", "none",
                    << export_conversation(memory_managers[s], MODEL_CONFIGS) >>)
    /\ UNCHANGED <<memory_managers, MODEL_CONFIGS, now, chat, limiter>>

\* what the last call returned, when it was an export of session s
Exported(s) ==
    IF last.op = "export_conversation" /\ last.sid = s THEN {last.ret[1]} ELSE {}

CleanupOldSessions(max_sessions) ==
    /\ memory_managers' = cleanup_old_sessions(memory_managers, max_sessions)
    /\ last' = Call("cleanup_old_sessions", <<>>, max_sessions, DOMAIN memory_managers,
                    "none", "none", <<>>)
    /\ UNCHANGED <<MODEL_CONFIGS, now, chat, limiter>>

\* a TokenCounter and a text, character by character, about to be counted
InitTokens ==
    /\ limiter = NoCalls
    /\ chat = NoChat
    /\ memory_managers = << >>
    /\ MODEL_CONFIGS = InitialModelConfigs
    /\ now = 0
    /\ \E text \in Texts, tokenizer \in BOOLEAN :
          last = Call("text", <<>>, [text |-> text, tokenizer |-> tokenizer], <<>>,
                      "none", "none", <<>>)

\* TokenCounter.count_tokens on that text; len(text) is the length of the
\* sequence
CountTokens ==
    /\ last.op = "text"
    /\ last' = [last EXCEPT !.op = "count_tokens",
                            !.ret = << count_tokens(Len(last.arg.text), last.arg.tokenizer) >>]
    /\ UNCHANGED <<memory_managers, MODEL_CONFIGS, now, chat, limiter>>

----------------------------------------------------------------------------
(* server.chat, lines 256-278, one step per thread at a time. No lock is   *)
(* taken anywhere in the source, so the steps of two requests interleave.  *)
(* A step is one access to the shared registry or to the manager's list.   *)

\* the manager object thread t holds
ChatManager(t) ==
    IF chat.ref[t] = chat.registered THEN memory_managers[ChatSession]
    ELSE chat.orphans[chat.ref[t]]

\* thread t writes mgr to the object it holds; c is the rest of the step
ChatStore(t, mgr, c) ==
    IF chat.ref[t] = chat.registered
    THEN /\ memory_managers' = [memory_managers EXCEPT ![ChatSession] = mgr]
         /\ chat' = c
    ELSE /\ memory_managers' = memory_managers
         /\ chat' = [c EXCEPT !.orphans = (chat.ref[t] :> mgr) @@ chat.orphans]

\* the request is over: the thread drops its locals
ChatReturn(c, t) ==
    [c EXCEPT !.pc[t] = "idle", !.ref[t] = 0, !.role[t] = "user",
              !.appended[t] = <<>>, !.pending[t] = <<>>]

\* add_message has returned: line 259 after the user message, line 277
\* after the reply
ChatAfterAdd(c, t) ==
    [c EXCEPT !.pc[t] = IF chat.role[t] = "user" THEN "post" ELSE "cleanup",
              !.appended[t] = <<>>, !.pending[t] = <<>>]

\* get_memory_manager, line 396: the membership test
ChatGetManagerTest(t) ==
    /\ chat.pc[t] = "idle"
    /\ chat' = [chat EXCEPT !.pc[t] = IF ChatSession \in DOMAIN memory_managers
                                      THEN "lookup" ELSE "construct"]
    /\ UNCHANGED <<memory_managers, MODEL_CONFIGS, now, last, limiter>>

\* get_memory_manager, line 397: a new manager is stored under the id,
\* replacing the one another thread stored since the test
ChatGetManagerConstruct(t) ==
    /\ chat.pc[t] = "construct"
    /\ now < MaxChatClock
    /\ \E tokenizer \in BOOLEAN :
          memory_managers' = (ChatSession :> NewManager(ChatSession, now, tokenizer))
                                @@ memory_managers
    /\ chat' = [chat EXCEPT !.pc[t] = "lookup",
                            !.registered = chat.next_object,
                            !.next_object = chat.next_object + 1,
                            !.orphans = IF chat.registered = 0 THEN chat.orphans
                                        ELSE (chat.registered :> memory_managers[ChatSession])
                                                @@ chat.orphans]
    /\ now' = now + 1
    /\ UNCHANGED <<MODEL_CONFIGS, last, limiter>>

\* get_memory_manager, line 398: the manager now under the id is returned
ChatGetManagerLookup(t) ==
    /\ chat.pc[t] = "lookup"
    /\ chat' = IF ChatSession \in DOMAIN memory_managers
               THEN [chat EXCEPT !.pc[t] = "set_model", !.ref[t] = chat.registered]
               ELSE ChatReturn(chat, t)                       \* KeyError
    /\ UNCHANGED <<memory_managers, MODEL_CONFIGS, now, last, limiter>>

\* line 257
ChatSetModel(t) ==
    /\ chat.pc[t] = "set_model"
    /\ ChatStore(t, [ChatManager(t) EXCEPT !.current_model = ChatModel],
                 [chat EXCEPT !.pc[t] = "append", !.role[t] = "user"])
    /\ MODEL_CONFIGS' = set_model(MODEL_CONFIGS, ChatModel)
    /\ UNCHANGED <<now, last, limiter>>

\* add_message, lines 220-228: the message is built and appended
ChatAppend(t) ==
    /\ chat.pc[t] = "append"
    /\ now < MaxChatClock
    /\ LET mgr == ChatManager(t)
           content == ChatContent[chat.role[t]]
           message == ConversationMessage(chat.role[t], content, now,
                                          count_tokens(content, mgr.tokenizer),
                                          FALSE, FALSE)
       IN  ChatStore(t, [mgr EXCEPT !.messages = Append(mgr.messages, message)],
                     [chat EXCEPT !.pc[t] = "manage", !.appended[t] = << message >>])
    /\ now' = now + 1
    /\ UNCHANGED <<MODEL_CONFIGS, last, limiter>>

\* add_message, line 229: _manage_buffer_size reads the list. The simple
\* pass pops in place; the summary pass builds the new list in locals and
\* assigns it in a later step; an IndexError ends the request (line 297)
ChatManage(t) ==
    /\ chat.pc[t] = "manage"
    /\ LET mgr == ChatManager(t)
           r == manage_buffer_size(mgr.messages,
                                   get_model_config(mgr.current_model, MODEL_CONFIGS),
                                   now, mgr.tokenizer)
       IN  /\ r.pass = "summary" => now < MaxChatClock
           /\ IF r.raised # "none"
              THEN ChatStore(t, [mgr EXCEPT !.messages = r.messages], ChatReturn(chat, t))
              ELSE IF r.pass = "summary"
              THEN ChatStore(t, mgr, [chat EXCEPT !.pc[t] = "rebuild",
                                                  !.pending[t] = r.messages])
              ELSE ChatStore(t, [mgr EXCEPT !.messages = r.messages], ChatAfterAdd(chat, t))
           /\ now' = now + r.stamps
    /\ UNCHANGED <<MODEL_CONFIGS, last, limiter>>

\* _truncate_with_summary, line 319: self.messages = the list built from what
\* the pass read
ChatRebuild(t) ==
    /\ chat.pc[t] = "rebuild"
    /\ ChatStore(t, [ChatManager(t) EXCEPT !.messages = chat.pending[t]],
                 ChatAfterAdd(chat, t))
    /\ UNCHANGED <<MODEL_CONFIGS, now, last, limiter>>

\* lines 259-276: the buffer is read and posted; a reply with status 200 is
\* added as the assistant's message, any other status ends the request
ChatPost(t) ==
    /\ chat.pc[t] = "post"
    /\ \E ok \in BOOLEAN :
          chat' = IF ok THEN [chat EXCEPT !.pc[t] = "append", !.role[t] = "assistant"]
                  ELSE ChatReturn(chat, t)
    /\ UNCHANGED <<memory_managers, MODEL_CONFIGS, now, last, limiter>>

\* line 278, then the response
ChatCleanup(t) ==
    /\ chat.pc[t] = "cleanup"
    /\ memory_managers' = cleanup_old_sessions(memory_managers, ChatMaxSessions)
    /\ chat' = IF ChatSession \in DOMAIN memory_managers
                    /\ ChatSession \notin DOMAIN cleanup_old_sessions(memory_managers,
                                                                      ChatMaxSessions)
               THEN [ChatReturn(chat, t) EXCEPT
                        !.registered = 0,
                        !.orphans = (chat.registered :> memory_managers[ChatSession])
                                       @@ chat.orphans]
               ELSE ChatReturn(chat, t)
    /\ UNCHANGED <<MODEL_CONFIGS, now, last, limiter>>

\* One session, every operation of its Buffer Manager.
Next ==
    \/ GetMemoryManager(BufferSession)
    \/ \E m \in ModelIds : SetModel(BufferSession, m)
    \/ \E a \in AddInputs : AddMessage(BufferSession, a[1], a[2], a[3])
    \/ GetConversationBuffer(BufferSession)
    \/ \E keep \in BOOLEAN : ClearConversation(BufferSession, keep)
    \/ \E data \in ImportData \cup Exported(BufferSession) :
          ImportConversation(BufferSession, data)
    \/ GetConversationStats(BufferSession)
    \/ ExportConversation(BufferSession)
    \/ CleanupOldSessions(0)

Spec == Init /\ [][Next]_vars

\* One session created by the registry, under set_model, add_message and
\* clear_conversation only.
NextCore ==
    \/ GetMemoryManager(BufferSession)
    \/ \E m \in ModelIds : SetModel(BufferSession, m)
    \/ \E a \in AddInputs : AddMessage(BufferSession, a[1], a[2], a[3])
    \/ \E keep \in BOOLEAN : ClearConversation(BufferSession, keep)

SpecCore == Init /\ [][NextCore]_vars

\* Several sessions, the operations of the registry.
NextRegistry ==
    \/ \E s \in SessionIds : GetMemoryManager(s)
    \/ \E s \in SessionIds :
          AddMessage(s, RegistryInput[1], RegistryInput[2], RegistryInput[3])
    \/ \E max_sessions \in MaxSessionsArgs : CleanupOldSessions(max_sessions)

SpecRegistry == Init /\ [][NextRegistry]_vars


\* The Length Estimator alone, on every text over Alphabet up to MaxTextLen.
NextTokens == CountTokens

SpecTokens == InitTokens /\ [][NextTokens]_vars

\* The chat requests of the threads of the server, on one session.
NextChat ==
    \E t \in Threads :
       \/ ChatGetManagerTest(t)
       \/ ChatGetManagerConstruct(t)
       \/ ChatGetManagerLookup(t)
       \/ ChatSetModel(t)
       \/ ChatAppend(t)
       \/ ChatManage(t)
       \/ ChatRebuild(t)
       \/ ChatPost(t)
       \/ ChatCleanup(t)

SpecChat == Init /\ [][NextChat]_vars

-----------------------------------------------------------------------------
\* server.py, check_rate_limit: the deque of one address holds the timestamps
\* of its admitted requests, oldest first.

RECURSIVE popleft_old_keeping_boundary(_, _, _)
\* as popleft_old, but a request exactly window_seconds old stays
popleft_old_keeping_boundary(requests, time, window_seconds) ==
    IF requests /= <<>> /\ Head(requests) < time - window_seconds
    THEN popleft_old_keeping_boundary(Tail(requests), time, window_seconds)
    ELSE requests

RECURSIVE popleft_old(_, _, _)
\* while requests and requests[0] <= now - window_seconds: requests.popleft()
popleft_old(requests, time, window_seconds) ==
    IF requests /= <<>> /\ Head(requests) <= time - window_seconds
    THEN popleft_old(Tail(requests), time, window_seconds)
    ELSE requests

\* check_rate_limit(ip_address, max_requests, window_seconds) at time `time`
\* on the deque `requests`: the deque it leaves and the value it returns
check_rate_limit(requests, time, max_requests, window_seconds) ==
    LET kept == popleft_old(requests, time, window_seconds)
    IN  IF Len(kept) >= max_requests
        THEN [requests |-> kept, ret |-> FALSE]
        ELSE [requests |-> Append(kept, time), ret |-> TRUE]

\* chat(), lines 228-231: check_rate_limit(client_ip) with the default
\* max_requests and window_seconds
CheckRateLimit(ip) ==
    LET r == check_rate_limit(limiter.storage[ip], now, MaxRequests, WindowSeconds)
    IN  /\ limiter' =
               [storage |-> [limiter.storage EXCEPT ![ip] = r.requests],
                admitted |-> [limiter.admitted EXCEPT ![ip] =
                                 IF r.ret THEN Append(@, now) ELSE @]]
        /\ last' = Call("check_rate_limit", ip, now, limiter.admitted[ip],
                        "none", "none", r.ret)
        /\ UNCHANGED <<memory_managers, MODEL_CONFIGS, now, chat>>

\* time.time() moves on between two calls
TimePasses(seconds) ==
    /\ now + seconds <= MaxRateClock
    /\ now' = now + seconds
    /\ UNCHANGED <<memory_managers, MODEL_CONFIGS, last, chat, limiter>>

NextRate ==
    \/ \E ip \in ClientAddresses : CheckRateLimit(ip)
    \/ \E seconds \in RateSteps : TimePasses(seconds)

SpecRate == Init /\ [][NextRate]_vars

----------------------------------------------------------------------------
(* Properties.                                                             *)

Range(seq) == {seq[i] : i \in 1..Len(seq)}

IsFixed(msg) == msg.is_pinned \/ msg.role = "system"

RECURSIVE IsSubseq(_, _)
\* a is b with some elements left out
IsSubseq(a, b) ==
    IF a = <<>> THEN TRUE
    ELSE IF b = <<>> THEN FALSE
    ELSE IF Head(a) = Head(b) THEN IsSubseq(Tail(a), Tail(b))
    ELSE IsSubseq(a, Tail(b))

RECURSIVE TotalTokens(_)
TotalTokens(messages) ==
    IF messages = <<>> THEN 0 ELSE Head(messages).token_count + TotalTokens(Tail(messages))

\* max_tokens - reserve_tokens of the policy the session resolves to
EffectiveBudget(mgr) ==
    LET config == get_model_config(mgr.current_model, MODEL_CONFIGS)
    IN  config.max_tokens - config.reserve_tokens

\* the messages of the session the last call was made on
After == memory_managers[last.sid].messages

\* the buffer an eviction pass of add_message starts from
BeforePass == Append(last.before, last.arg)

\* C1: over add_message, set_model, clear_conversation and the get_* calls, a
\* message that is pinned or has role system stays in the buffer, except
\* across clear_conversation(keep_system_prompt=false).
C1_PinnedOrSystemNeverRemoved ==
    ( \/ last.op \in {"add_message", "set_model", "get_conversation_buffer"}
      \/ (last.op = "get_memory_manager" /\ last.arg = "found")
      \/ (last.op = "clear_conversation" /\ last.arg = TRUE) )
    => \A i \in 1..Len(last.before) :
          IsFixed(last.before[i]) => last.before[i] \in Range(After)

\* C2: after an eviction pass of add_message (simple or summarizing) that
\* returned, the total token count is within the effective budget or every
\* message left is pinned or system.
C2_EvictionRestoresBudget ==
    (last.op = "add_message" /\ last.pass \in {"simple", "summary"} /\ last.raised = "none")
    => \/ TotalTokens(After) <= EffectiveBudget(memory_managers[last.sid])
       \/ \A i \in 1..Len(After) : IsFixed(After[i])

\* C3: after a summarize-and-evict pass the buffer is the pinned-or-system
\* messages the pass found, in their order, then one new summary message
\* (system, pinned, is_summary), then retained movable messages in their
\* original order.
C3_SummaryPlacement ==
    (last.op = "add_message" /\ last.pass = "summary")
    => LET kept_fixed == SelectSeq(BeforePass, IsFixed)
           movable == SelectSeq(BeforePass, LAMBDA m : ~IsFixed(m))
           n == Len(kept_fixed)
       IN  /\ Len(After) >= n + 1
           /\ SubSeq(After, 1, n) = kept_fixed
           /\ After[n + 1].is_summary
           /\ After[n + 1].role = "system"
           /\ After[n + 1].is_pinned
           /\ After[n + 1] \notin Range(BeforePass)
           /\ After[n + 1].timestamp > last.arg.timestamp
           /\ IsSubseq(SubSeq(After, n + 2, Len(After)), movable)

\* C3 witness: a summarizing pass that kept two fixed and two movable messages
C3_Witness ==
    /\ last.op = "add_message" /\ last.pass = "summary"
    /\ Len(SelectSeq(After, LAMBDA m : ~IsFixed(m))) >= 2
    /\ Len(SelectSeq(After, LAMBDA m : IsFixed(m) /\ ~m.is_summary)) >= 2

\* C4: simple eviction never reorders: the buffer it leaves is a subsequence
\* of the buffer it found.
C4_SimpleEvictionKeepsOrder ==
    (last.op = "add_message" /\ last.pass = "simple") => IsSubseq(After, BeforePass)

\* C4 witness: a simple pass that removed a message and left three
C4_Witness ==
    /\ last.op = "add_message" /\ last.pass = "simple" /\ last.raised = "none"
    /\ Len(After) < Len(BeforePass)
    /\ Len(After) >= 3

\* C5: add_message never raises: the eviction it triggers completes and a
\* message is returned.
C5_AddMessageNeverRaises ==
    last.op = "add_message" => (last.raised = "none" /\ last.ret = << last.arg >>)

\* C6: get_conversation_buffer changes neither the registry nor the policy
\* table, and a call right after another on the same session returns the
\* same sequence.
C6_GetBufferIsPureRead ==
    [][ last'.op = "get_conversation_buffer"
        => /\ memory_managers' = memory_managers
           /\ MODEL_CONFIGS' = MODEL_CONFIGS
           /\ (last.op = "get_conversation_buffer" /\ last.sid = last'.sid)
                 => last'.ret = last.ret ]_vars

\* C6 witness: a buffer of three messages, one a summary, has been returned
C6_Witness ==
    /\ last.op = "get_conversation_buffer"
    /\ Len(last.ret) >= 3
    /\ \E i \in 1..Len(last.ret) : "metadata" \in DOMAIN last.ret[i]
    /\ After = last.before

\* C7: an import_conversation that is rejected leaves the session's message
\* list, current model and session id as they were.
C7_RejectedImportLeavesSession ==
    [][ (last'.op = "import_conversation" /\ last'.raised # "none")
        => memory_managers'[last'.sid] = memory_managers[last'.sid] ]_vars

C9_GetOrCreate ==
    [][ last'.op = "get_memory_manager"
        => LET s == last'.sid IN
           /\ s \in DOMAIN memory_managers'
           /\ s \in DOMAIN memory_managers
                 => memory_managers'[s] = memory_managers[s]
           /\ s \notin DOMAIN memory_managers
                 => LET mgr == memory_managers'[s] IN
                    /\ mgr.session_id = s
                    /\ mgr.current_model = NoModel
                    /\ Len(mgr.messages) = 1
                    /\ mgr.messages[1].role = "system"
                    /\ mgr.messages[1].is_pinned
                    /\ ~mgr.messages[1].is_summary
           /\ DOMAIN memory_managers' = DOMAIN memory_managers \cup {s}
           /\ \A o \in DOMAIN memory_managers \ {s} :
                 memory_managers'[o] = memory_managers[o] ]_vars

\* C9 witness: a lookup found a manager with accumulated messages while
\* another session is live
C9_Witness ==
    /\ last.op = "get_memory_manager" /\ last.arg = "found"
    /\ Len(After) >= 3
    /\ Cardinality(DOMAIN memory_managers) >= 2

\* C10: set_model leaves its id in the table, a new id with max_tokens 32000,
\* reserve 1000 and threshold 0.7; no step changes or removes an entry of the
\* table; every session resolves to a policy, a session with no current
\* model or an id missing from the table to the default of 32000.
C10_PolicyLookup ==
    [][ /\ \A id \in DOMAIN MODEL_CONFIGS :
              id \in DOMAIN MODEL_CONFIGS' /\ MODEL_CONFIGS'[id] = MODEL_CONFIGS[id]
        /\ last'.op = "set_model"
              => /\ last'.arg \in DOMAIN MODEL_CONFIGS'
                 /\ memory_managers'[last'.sid].current_model = last'.arg
                 /\ last'.arg \notin DOMAIN MODEL_CONFIGS
                       => /\ MODEL_CONFIGS'[last'.arg].max_tokens = 32000
                          /\ MODEL_CONFIGS'[last'.arg].reserve_tokens = 1000
                          /\ MODEL_CONFIGS'[last'.arg].summary_threshold = <<7, 10>>
        /\ \A s \in DOMAIN memory_managers' :
              LET mgr == memory_managers'[s]
                  config == get_model_config(mgr.current_model, MODEL_CONFIGS')
              IN  /\ mgr.current_model \in DOMAIN MODEL_CONFIGS'
                        => config = MODEL_CONFIGS'[mgr.current_model]
                  /\ mgr.current_model \notin DOMAIN MODEL_CONFIGS'
                        => config.max_tokens = 32000 /\ config.reserve_tokens = 1000 ]_vars

\* C10 witness: set_model on the deepseek id after an unknown id entered the
\* table, in a session that has messages
C10_Witness ==
    /\ last.op = "set_model"
    /\ last.arg = "deepseek-ai/deepseek-r1"
    /\ "acme/unlisted" \in DOMAIN MODEL_CONFIGS
    /\ MODEL_CONFIGS["acme/unlisted"].max_tokens = 32000
    /\ Len(After) >= 2


RECURSIVE PinnedSystemOnly(_)
\* the messages that are both pinned and system, in order
PinnedSystemOnly(messages) ==
    IF messages = <<>> THEN <<>>
    ELSE (IF Head(messages).is_pinned /\ Head(messages).role = "system"
          THEN << Head(messages) >> ELSE <<>>)
         \o PinnedSystemOnly(Tail(messages))

C12_ExportImportRoundTrip ==
    [][ (last'.op = "import_conversation" /\ "stats" \in DOMAIN last'.arg)
        => /\ last'.raised = "none"
           /\ memory_managers'[last'.sid] = memory_managers[last'.sid]
           /\ last'.arg.session_id = memory_managers[last'.sid].session_id
           /\ Len(last'.arg.messages) = Len(memory_managers[last'.sid].messages) ]_vars

\* C12 witness: an exported session with a model set, a summary, a pinned user
\* message and an unpinned message has been imported
C12_Witness ==
    /\ last.op = "import_conversation" /\ "stats" \in DOMAIN last.arg
    /\ memory_managers[last.sid].current_model # NoModel
    /\ \E i \in 1..Len(After) : After[i].is_summary
    /\ \E i \in 1..Len(After) : After[i].role = "user" /\ After[i].is_pinned
    /\ \E i \in 1..Len(After) : ~After[i].is_pinned /\ After[i].token_count > 0

\* C13: when the total token count of a session exceeds its effective budget
\* (max_tokens - reserve_tokens), the utilization_percent that
\* get_conversation_stats reports is above 100.
C13_OverBudgetShowsInUtilization ==
    ( /\ last.op = "get_conversation_stats"
      /\ last.ret[1].total_tokens > EffectiveBudget(memory_managers[last.sid]) )
    => last.ret[1].utilization_percent > 100 * 100

\* w: the number of whitespace-separated words, len(text.split())
word_count(text) ==
    Cardinality({ i \in 1..Len(text) : text[i] # " " /\ (i = 1 \/ text[i - 1] = " ") })

\* p: the number of characters neither alphanumeric nor whitespace
punctuation_count(text) ==
    Cardinality({ i \in 1..Len(text) : text[i] = "." })

\* round(w * 1.3), a tie going to the even integer
round_13_tenths(w) ==
    LET q == (w * 13) \div 10
        r == (w * 13) % 10
    IN  q + (IF r > 5 \/ (r = 5 /\ q % 2 = 1) THEN 1 ELSE 0)

\* the heuristic of the specification's Length Estimator
reference_heuristic(text) ==
    IF text = <<>> THEN 0
    ELSE Max(1, round_13_tenths(word_count(text)) + punctuation_count(text) \div 3)

\* C14 as stated: without the primary tokenizer, count_tokens(text) is the
\* reference heuristic: 0 for empty text, otherwise
\* max(1, round(w * 1.3) + floor(p / 3)).
C14_FallbackIsWordHeuristic ==
    (last.op = "count_tokens" /\ ~last.arg.tokenizer)
    => last.ret[1] = reference_heuristic(last.arg.text)

\* C14 amended: without the primary tokenizer, count_tokens(text) is 0 for
\* empty text and otherwise max(1, floor(len(text) / 4)), whatever the words
\* and the punctuation of the text.
C14_FallbackIsQuarterLength ==
    (last.op = "count_tokens" /\ ~last.arg.tokenizer)
    => last.ret[1] = (IF Len(last.arg.text) = 0 THEN 0
                      ELSE IF Len(last.arg.text) < 4 THEN 1
                      ELSE Len(last.arg.text) \div 4)

\* C14 witness: the fallback has counted a text of two words, three
\* punctuation characters and eight characters as two tokens
C14_Witness ==
    /\ last.op = "count_tokens" /\ ~last.arg.tokenizer
    /\ Len(last.arg.text) = 8
    /\ word_count(last.arg.text) = 2
    /\ punctuation_count(last.arg.text) = 3
    /\ last.ret[1] = 2

\* C17: in every reachable state every message of the buffer that the manager
\* built itself (the seeded system prompt, the added messages, the synthesized
\* summaries; imported entries carry timestamps before the clock started) has
\* token_count equal to the Length Estimator's value for its stored content.
C17_TokenCountIsEstimateOfContent ==
    \A s \in DOMAIN memory_managers :
       \A i \in 1..Len(memory_managers[s].messages) :
          LET msg == memory_managers[s].messages[i]
          IN  msg.timestamp >= 0
                 => msg.token_count = count_tokens(msg.content, memory_managers[s].tokenizer)

\* C18: in every reachable state, after any sequence of add_message,
\* clear_conversation, import_conversation and eviction passes, every message
\* with is_summary = true has role system and is pinned.
C18_SummaryIsPinnedSystem ==
    \A s \in DOMAIN memory_managers :
       \A i \in 1..Len(memory_managers[s].messages) :
          LET msg == memory_managers[s].messages[i]
          IN  msg.is_summary => (msg.role = "system" /\ msg.is_pinned)

RECURSIVE DropOldestRemovable(_, _)
\* the buffer without the shortest oldest-first prefix of its removable
\* messages that brings the total within the budget, or without all of them
DropOldestRemovable(messages, budget) ==
    LET removable == { i \in 1..Len(messages) : ~IsFixed(messages[i]) }
    IN  IF TotalTokens(messages) <= budget \/ removable = {} THEN messages
        ELSE LET first == CHOOSE i \in removable : \A j \in removable : i <= j
             IN  DropOldestRemovable(
                    [k \in 1..(Len(messages) - 1) |->
                        IF k < first THEN messages[k] ELSE messages[k + 1]],
                    budget)

\* C20: simple eviction removes removable (neither pinned nor system) messages
\* oldest first, one at a time, and stops as soon as the total is within the
\* budget: what it removes is exactly the shortest oldest-first prefix of the
\* removable messages that brings the total within the budget, or all of them
\* when no prefix does.
C20_SimpleEvictionRemovesOldestPrefix ==
    (last.op = "add_message" /\ last.pass = "simple" /\ last.raised = "none")
    => After = DropOldestRemovable(BeforePass, EffectiveBudget(memory_managers[last.sid]))

\* C15: when two requests call get_memory_manager concurrently for the same
\* session id not yet in the registry, both obtain the same manager instance:
\* at every time the requests in flight hold at most one manager for the id,
\* and no message is appended to a manager that is not the registered one.
C15_OneManagerPerSession ==
    /\ \A t1, t2 \in Threads :
          (chat.ref[t1] # 0 /\ chat.ref[t2] # 0) => chat.ref[t1] = chat.ref[t2]
    /\ \A t \in Threads :
          chat.appended[t] # <<>> => chat.ref[t] = chat.registered

\* C16: the add_message calls of two concurrent requests for one session never
\* interleave, so no appended message is lost when the other request's
\* eviction pass replaces the list: a message that a request has appended is
\* in the buffer when that request's own eviction pass starts, unless a pass
\* that read the list after the append has summarized it (its summary is
\* newer than the message).
C16_NoAppendedMessageLost ==
    \A t \in Threads :
       chat.pc[t] = "manage"
          => LET message == chat.appended[t][1]
                 messages == ChatManager(t).messages
             IN  \/ message \in Range(messages)
                 \/ \E i \in 1..Len(messages) :
                       messages[i].is_summary /\ messages[i].timestamp > message.timestamp

\* the number of summary messages of a buffer
SummaryCount(messages) ==
    Cardinality({ i \in 1..Len(messages) : messages[i].is_summary })

\* the number of movable (neither pinned nor system) messages of a buffer
MovableCount(messages) ==
    Cardinality({ i \in 1..Len(messages) : ~IsFixed(messages[i]) })

\* C21: when the buffer is over budget after the append and has at most 2
\* movable (neither pinned nor system) messages, add_message performs simple
\* eviction only: no summary message is created and the number of summary
\* messages is unchanged.
C21_FewMovableNoSummary ==
    ( /\ last.op = "add_message"
      /\ TotalTokens(BeforePass) > EffectiveBudget(memory_managers[last.sid])
      /\ MovableCount(BeforePass) <= 2 )
    => /\ last.pass = "simple"
       /\ SummaryCount(After) = SummaryCount(BeforePass)
       /\ \A i \in 1..Len(After) :
             After[i].is_summary => After[i] \in Range(BeforePass)

\* C21 witness: an over-budget add_message with two movable messages and a
\* summary in the buffer has run the simple pass and removed a message
C21_Witness ==
    /\ last.op = "add_message" /\ last.raised = "none"
    /\ TotalTokens(BeforePass) > EffectiveBudget(memory_managers[last.sid])
    /\ MovableCount(BeforePass) = 2
    /\ SummaryCount(BeforePass) >= 1
    /\ Len(After) < Len(BeforePass)

\* C22: in summarize-and-evict the messages the summary replaces form one
\* contiguous block of the oldest movable messages: every summarized movable
\* message is older than every retained movable message.
C22_SummarizedBlockIsOldest ==
    (last.op = "add_message" /\ last.pass = "summary")
    => \A i, j \in 1..Len(BeforePass) :
          ( /\ ~IsFixed(BeforePass[i]) /\ BeforePass[i] \notin Range(After)
            /\ ~IsFixed(BeforePass[j]) /\ BeforePass[j] \in Range(After) )
          => i < j

\* the summary messages of After that the last call created
NewSummaries ==
    { i \in 1..Len(After) : After[i].is_summary /\ After[i] \notin Range(BeforePass) }

\* C23: the eviction strategy runs once per add_message and is not repeated
\* to a fixed point: one add_message creates at most one summary message,
\* even when the buffer is still over the effective budget after the pass.
C23_OnePassPerAddMessage ==
    last.op = "add_message"
    => /\ Cardinality(NewSummaries) <= 1
       /\ SummaryCount(After) <= SummaryCount(BeforePass) + 1
       /\ last.pass = "none" => NewSummaries = {}

\* C23 witness: a summary pass has left one new summary, three movable
\* messages and a total still over the effective budget
C23_Witness ==
    /\ last.op = "add_message" /\ last.pass = "summary"
    /\ Cardinality(NewSummaries) = 1
    /\ MovableCount(After) >= 3
    /\ TotalTokens(After) > EffectiveBudget(memory_managers[last.sid])

\* the ratios n/d of (0, 1] in tenths
UnitRatios == { r \in (1..ThresholdDen) \X {ThresholdDen} : r[1] <= r[2] }

\* C24: for every policy with summary_threshold in (0, 1], a total over the
\* effective budget is also over int(budget * summary_threshold), so
\* _manage_buffer_size takes the summarize path whenever the buffer is over
\* budget; simple eviction is reached only as the fallback for at most 2
\* movable messages.
C24_OverBudgetTakesSummaryPath ==
    ( /\ last.op = "add_message"
      /\ TotalTokens(BeforePass) > EffectiveBudget(memory_managers[last.sid]) )
    => /\ \A r \in UnitRatios :
             TotalTokens(BeforePass)
                > summary_threshold_of(EffectiveBudget(memory_managers[last.sid]), r)
       /\ MovableCount(BeforePass) > 2 => last.pass \in {"summary", "summary_noop"}
       /\ last.pass = "simple" => MovableCount(BeforePass) <= 2

\* C24 witness: an over-budget add_message with three movable messages took
\* the summarize path
C24_Witness ==
    /\ last.op = "add_message" /\ last.pass = "summary"
    /\ TotalTokens(BeforePass) > EffectiveBudget(memory_managers[last.sid])
    /\ MovableCount(BeforePass) = 3
    /\ memory_managers[last.sid].current_model = "acme/unlisted"

\* C25: after add_message returns, the message it returns is the last element
\* of the session's buffer, so the following get_conversation_buffer ends
\* with it: the eviction pass never evicts or summarizes the message being
\* inserted.
C25_AddedMessageIsLast ==
    (last.op = "add_message" /\ last.raised = "none")
    => /\ last.ret = << last.arg >>
       /\ Len(After) >= 1
       /\ After[Len(After)] = last.arg
       /\ get_conversation_buffer(After)[Len(After)] = api_message(last.arg)

\* C26: for a manager created by the registry, after any sequence of
\* set_model, add_message and clear_conversation the buffer is not empty and
\* its first message is the mandatory pinned system prompt: role system,
\* pinned, not a summary.
C26_SystemPromptStaysFirst ==
    \A s \in DOMAIN memory_managers :
       LET messages == memory_managers[s].messages
       IN  /\ Len(messages) >= 1
           /\ messages[1].role = "system"
           /\ messages[1].is_pinned
           /\ ~messages[1].is_summary
           /\ messages[1].content = SystemPromptLen

\* C26 witness: a simple pass has removed a pinned or system message that
\* was not the head, and the head is still the system prompt
C26_Witness ==
    /\ last.op = "add_message" /\ last.pass = "simple"
    /\ \E i \in 2..Len(BeforePass) :
          IsFixed(BeforePass[i]) /\ BeforePass[i] \notin Range(After)
    /\ After[1].role = "system" /\ After[1].content = SystemPromptLen

\* C27: whenever summarize-and-evict runs with more than 2 movable messages
\* and a total over budget, the set to summarize is not empty: the pass
\* removes at least one movable message and adds exactly one new summary; it
\* is never a no-op, existing summaries are kept, and the summary count grows
\* by exactly 1.
C27_SummaryPassAddsOneSummary ==
    ( /\ last.op = "add_message"
      /\ TotalTokens(BeforePass) > EffectiveBudget(memory_managers[last.sid])
      /\ MovableCount(BeforePass) > 2 )
    => /\ last.pass = "summary"
       /\ MovableCount(After) < MovableCount(BeforePass)
       /\ Cardinality(NewSummaries) = 1
       /\ \A i \in 1..Len(BeforePass) :
             BeforePass[i].is_summary => BeforePass[i] \in Range(After)
       /\ SummaryCount(After) = SummaryCount(BeforePass) + 1

\* C28: a successful chat request never loses its own session: the
\* cleanup_old_sessions call at the end of the request (with a cap of at
\* least one session, 500 in the server) does not delete the session the
\* request has just written its messages to, so the next request with the
\* same id finds that history.
C28_CleanupKeepsOwnSession ==
    [][ ( /\ last.op = "add_message" /\ last.raised = "none"
          /\ last'.op = "cleanup_old_sessions" /\ last'.arg >= 1 )
        => /\ last.sid \in DOMAIN memory_managers'
           /\ memory_managers'[last.sid] = memory_managers[last.sid] ]_vars

\* the timestamps of `stamps` inside the window of window_seconds that ends
\* at `time`, its older end excluded
InWindow(stamps, time) ==
    { i \in 1..Len(stamps) :
        stamps[i] > time - WindowSeconds /\ stamps[i] <= time }

\* C29: for every client address, with a clock that never goes back, at most
\* max_requests admitted requests have their timestamps inside any window of
\* window_seconds (the windows ending at an admitted timestamp are the fullest
\* ones); a rejected call records nothing; and a call is admitted exactly when
\* fewer than max_requests admitted timestamps lie in the last window_seconds.
C29_RateLimitWindow ==
    /\ \A ip \in ClientAddresses :
         \A i \in 1..Len(limiter.admitted[ip]) :
            Cardinality(InWindow(limiter.admitted[ip], limiter.admitted[ip][i]))
                <= MaxRequests
    /\ last.op = "check_rate_limit" =>
         /\ last.ret <=>
              Cardinality(InWindow(last.before, last.arg)) < MaxRequests
         /\ limiter.admitted[last.sid] =
              IF last.ret THEN Append(last.before, last.arg) ELSE last.before
         /\ ~last.ret => limiter.storage[last.sid] =
              SelectSeq(last.before, LAMBDA t : t > last.arg - WindowSeconds)

\* C29 witness: a call is admitted while max_requests earlier admissions of the
\* same address are on record, the oldest of them exactly window_seconds old,
\* and the other address has been rejected
C29_Witness ==
    /\ last.op = "check_rate_limit" /\ last.ret
    /\ Len(last.before) >= MaxRequests
    /\ \E i \in 1..Len(last.before) : last.before[i] = last.arg - WindowSeconds
    /\ \E ip \in ClientAddresses \ {last.sid} :
         Len(limiter.admitted[ip]) = MaxRequests

=============================================================================
